---- MODULE Spec2Model ----
(***************************************************************************)
(* Model of the Modal component (src/unnamed/part_003): the portal         *)
(* lifecycle (show / hide / updateProps / updateContent / destroy), the    *)
(* two deferred effects (requestAnimationFrame and the 200 ms timeout),    *)
(* the document-level keydown listeners and the focus trap, together with  *)
(* the part of the host document the component reads and writes            *)
(* (document.body children, body overflow, document.activeElement).        *)
(* Two further components are modelled under specifications of their own:  *)
(* the Navbar (src/unnamed/part_002) with its document-level listeners     *)
(* (SpecNavbar), and the Button (src/src/components/Button/Button.ts) with *)
(* its disabled / aria-disabled state (SpecButton).                        *)
(***************************************************************************)
EXTENDS Integers, Sequences, FiniteSets

\* ---------------------------------------------------------------- bounds
MaxPortals == 2      \* portal nodes one controller creates in a run
MaxTimers  == 3      \* pending setTimeout callbacks
MaxFrames  == 1      \* pending requestAnimationFrame callbacks
MaxVer     == 1      \* updateContent calls per portal body
MaxSteps   == 3      \* method calls and user events after construction

\* ------------------------------------------------------- program constants
CloseDelay == 200    \* setTimeout delay of hide() and of the re-render show()

\* ------------------------------------------------------------ input values
Children == {"none", "form"}             \* props.children, as markup strings

\* the configurations a Modal is constructed with
PropsSet == [isOpen : BOOLEAN, title : {"unset"}, children : Children,
             closeOnBackdropClick : {"unset", "false"}, closeOnEscape : {"unset", "false"},
             showCloseButton : {"unset", "false"}]

\* Partial<ModalProps>: "keep" stands for a key the object does not have
Keep == "keep"
Fields == {"isOpen", "title", "children", "closeOnBackdropClick",
           "closeOnEscape", "showCloseButton"}
NoPatch == [f \in Fields |-> Keep]
\* the values updateProps is called with: isOpen either way, a new title, backdrop
\* dismissal switched off and Escape dismissal switched on
PatchValues ==
  [isOpen |-> {"true", "false"}, title |-> {"A"}, children |-> {},
   closeOnBackdropClick |-> {"false"}, closeOnEscape |-> {"true"},
   showCloseButton |-> {}]

\* the objects updateProps is called with: {} and every single-key object
Patches ==
  {NoPatch} \cup
  UNION {{[NoPatch EXCEPT ![f] = v] : v \in PatchValues[f]} : f \in Fields}

\* the focusable elements of the page outside the modal
ExtIds == {1}

\* number of focusable elements the markup of children c creates
NumFocusable(c) == IF c = "form" THEN 2 ELSE 0

\* ---------------------------------------------------------------- elements
Body         == [k |-> "body",  p |-> 0, v |-> 0, i |-> 0]
Undefined    == [k |-> "undef", p |-> 0, v |-> 0, i |-> 0]
Ext(i)       == [k |-> "ext",   p |-> 0, v |-> 0, i |-> i]
CloseBtn(p)  == [k |-> "close", p |-> p, v |-> 0, i |-> 0]
Item(p,v,i)  == [k |-> "item",  p |-> p, v |-> v, i |-> i]

VARIABLES
  props,                   \* this.props
  portal,                  \* this.portal (with backdrop, modal, header, body, closeButton); 0 = undefined
  previousFocusedElement,  \* this.previousFocusedElement
  focusableElements,       \* this.focusableElements
  nodes,                   \* the portal subtrees created so far
  escListener,             \* document keydown listener handleEscapeKey registered
  trapListener,            \* document keydown listener trapFocus registered
  overflow,                \* document.body.style.overflow
  activeElement,           \* document.activeElement
  timers,                  \* pending setTimeout callbacks, in firing order
  frames,                  \* pending requestAnimationFrame callbacks
  threw,                   \* an operation raised a TypeError
  steps,                   \* method calls and user events so far
  misuse,                  \* a method other than destroy() was called after destroy()
  destroyed,               \* destroy() calls so far: 0, 1, or 2 for two and more
  since,                   \* the last step of the caller or the user (history)
  last                     \* what the last step did (history)

\* the other components of the library, each checked under a specification of its own
VARIABLES
  navbar,                  \* a Navbar instance (src/unnamed/part_002): fields, subtree, document listeners
  navLast,                 \* what the last Navbar step did (history)
  button,                  \* a Button instance (Button.ts): props and element
  btnLast                  \* what the last Button step did (history)

navVars == <<navbar, navLast>>
btnVars == <<button, btnLast>>

vars == <<props, portal, previousFocusedElement, focusableElements, nodes,
          escListener, trapListener, overflow, activeElement, timers, frames,
          threw, steps, misuse, destroyed, since, last>>

\* the program state as one record, so that methods compose
St == [props |-> props, portal |-> portal,
       previousFocusedElement |-> previousFocusedElement,
       focusableElements |-> focusableElements, nodes |-> nodes,
       escListener |-> escListener, trapListener |-> trapListener,
       overflow |-> overflow, activeElement |-> activeElement,
       timers |-> timers, frames |-> frames, threw |-> threw]

\* ------------------------------------------------------ host document (DOM)
\* the elements of portal subtree n that match the focusable selectors, in document order
SubtreeFocusable(s, n) ==
  LET nd == s.nodes[n] IN
  (IF nd.closeBtn THEN <<CloseBtn(n)>> ELSE << >>)
    \o [i \in 1..NumFocusable(nd.content) |-> Item(n, nd.ver, i)]

InSubtree(s, el, n) ==
  \E j \in 1..Len(SubtreeFocusable(s, n)) : SubtreeFocusable(s, n)[j] = el

InDocument(s, el) ==
  \/ el.k \in {"body", "ext"}
  \/ \E n \in 1..Len(s.nodes) : s.nodes[n].attached /\ InSubtree(s, el, n)

\* HTMLElement.focus(): only a focusable element connected to the document takes focus
Focus(s, el) ==
  IF el.k # "body" /\ el.k # "undef" /\ InDocument(s, el)
  THEN [s EXCEPT !.activeElement = el] ELSE s

\* document.body.appendChild(portal)
AppendToBody(s, n) == [s EXCEPT !.nodes[n].attached = TRUE]

\* document.body.removeChild(portal): focus inside the removed subtree falls back to body
RemoveFromBody(s, n) ==
  [s EXCEPT !.nodes[n].attached = FALSE,
            !.activeElement = IF InSubtree(s, @, n) THEN Body ELSE @]

\* ------------------------------------------------------------------ Modal
createElement(s) ==
  LET nd == [attached |-> FALSE, open |-> FALSE,
             backdropListener |-> (s.props.closeOnBackdropClick # "false"),
             title    |-> s.props.title,
             closeBtn |-> (s.props.showCloseButton # "false"),
             content  |-> s.props.children,
             ver      |-> 0]
  IN [s EXCEPT !.nodes = Append(@, nd), !.portal = Len(s.nodes) + 1]

getFocusableElements(s) ==
  IF s.portal = 0 THEN << >> ELSE SubtreeFocusable(s, s.portal)

\* a show() that applies the open class before it returns
requestAnimationFrame_sync(s) ==
  IF s.portal # 0 THEN [s EXCEPT !.nodes[s.portal].open = TRUE] ELSE s

\* requestAnimationFrame(() => this.portal?.classList.add('modal-portal--open'))
requestAnimationFrame(s) == [s EXCEPT !.frames = @ + 1]

\* a show() that cancels the pending timeouts
show_cancels(s) ==
  LET s1 == IF s.portal = 0 THEN createElement(s) ELSE s
      s2 == [s1 EXCEPT !.previousFocusedElement = s1.activeElement, !.timers = << >>]
      s3 == [AppendToBody(s2, s2.portal) EXCEPT !.overflow = "hidden"]
      s4 == [s3 EXCEPT !.escListener = @ \/ (s3.props.closeOnEscape # "false"),
                       !.trapListener = TRUE]
      s5 == [s4 EXCEPT !.focusableElements = getFocusableElements(s4)]
      s6 == IF Len(s5.focusableElements) > 0
            THEN Focus(s5, s5.focusableElements[1])
            ELSE s5
  IN requestAnimationFrame(s6)

show(s) ==
  LET s1 == IF s.portal = 0 THEN createElement(s) ELSE s
      s2 == [s1 EXCEPT !.previousFocusedElement = s1.activeElement]
      s3 == [AppendToBody(s2, s2.portal) EXCEPT !.overflow = "hidden"]
      s4 == [s3 EXCEPT !.escListener = @ \/ (s3.props.closeOnEscape # "false"),
                       !.trapListener = TRUE]
      s5 == [s4 EXCEPT !.focusableElements = getFocusableElements(s4)]
      s6 == IF Len(s5.focusableElements) > 0
            THEN Focus(s5, s5.focusableElements[1])
            ELSE s5      \* this.modal.focus(): a div without tabindex takes no focus
  IN requestAnimationFrame(s6)

\* a cleanup that forgets to restore focus
hideTimeout_noRestore(s) ==
  LET s1 == [s EXCEPT !.escListener = FALSE, !.trapListener = FALSE]
      s2 == IF s1.portal # 0 /\ s1.nodes[s1.portal].attached
            THEN RemoveFromBody(s1, s1.portal) ELSE s1
  IN [s2 EXCEPT !.overflow = ""]

\* the callback hide() passes to setTimeout
hideTimeout(s) ==
  LET s1 == [s EXCEPT !.escListener = FALSE, !.trapListener = FALSE]
      s2 == IF s1.portal # 0 /\ s1.nodes[s1.portal].attached
            THEN RemoveFromBody(s1, s1.portal) ELSE s1
      s3 == [s2 EXCEPT !.overflow = ""]
  IN IF s3.previousFocusedElement # Undefined
     THEN Focus(s3, s3.previousFocusedElement) ELSE s3

\* a timer queue that runs the newest callback first
SetTimeout_lifo(s, kind, delay) ==
  [s EXCEPT !.timers = <<[kind |-> kind, delay |-> delay]>> \o @]

\* setTimeout(callback, delay): callbacks of equal delay fire in the order they were set
SetTimeout(s, kind, delay) ==
  LET t == [kind |-> kind, delay |-> delay]
  IN IF \A j \in 1..Len(s.timers) : s.timers[j].delay <= delay
     THEN [s EXCEPT !.timers = Append(@, t)]
     ELSE [s EXCEPT !.timers = <<t>> \o @]

\* a hide() without the early return: this.portal.classList of undefined throws
hide_noGuard(s) ==
  IF s.portal = 0 THEN [s EXCEPT !.threw = TRUE]
  ELSE [s EXCEPT !.nodes[s.portal].open = FALSE,
                 !.timers = Append(@, [kind |-> "cleanup", delay |-> CloseDelay])]

hide(s) ==
  IF s.portal = 0 THEN s
  ELSE SetTimeout([s EXCEPT !.nodes[s.portal].open = FALSE], "cleanup", CloseDelay)

\* { ...this.props, ...newProps }
Merge(old, new) ==
  [isOpen   |-> IF new.isOpen = Keep THEN old.isOpen ELSE new.isOpen = "true",
   title    |-> IF new.title = Keep THEN old.title ELSE new.title,
   children |-> IF new.children = Keep THEN old.children ELSE new.children,
   closeOnBackdropClick |-> IF new.closeOnBackdropClick = Keep
                            THEN old.closeOnBackdropClick ELSE new.closeOnBackdropClick,
   closeOnEscape   |-> IF new.closeOnEscape = Keep THEN old.closeOnEscape ELSE new.closeOnEscape,
   showCloseButton |-> IF new.showCloseButton = Keep
                       THEN old.showCloseButton ELSE new.showCloseButton]

updateProps(s, newProps) ==
  LET wasOpen == s.props.isOpen
      s1 == [s EXCEPT !.props = Merge(@, newProps)]
  IN IF wasOpen /\ ~s1.props.isOpen THEN hide(s1)
     ELSE IF ~wasOpen /\ s1.props.isOpen THEN show(s1)
     ELSE IF s1.props.isOpen
          THEN SetTimeout(hide(s1), "show", CloseDelay)
          ELSE s1

\* an updateContent that keeps the list computed by show()
updateContent_stale(s, children) ==
  IF s.portal = 0 THEN s
  ELSE [s EXCEPT !.nodes[s.portal].content = children,
                 !.nodes[s.portal].ver = @ + 1,
                 !.activeElement = IF @.k = "item" /\ @.p = s.portal THEN Body ELSE @]

updateContent(s, children) ==
  IF s.portal = 0 THEN s
  ELSE LET s1 == [s EXCEPT !.nodes[s.portal].content = children,
                           !.nodes[s.portal].ver = @ + 1,
                           !.activeElement = IF @.k = "item" /\ @.p = s.portal THEN Body ELSE @]
       IN [s1 EXCEPT !.focusableElements = getFocusableElements(s1)]

destroy(s) == [hide(s) EXCEPT !.portal = 0]

\* the callback show() passes to requestAnimationFrame
showFrame(s) ==
  IF s.portal # 0 THEN [s EXCEPT !.nodes[s.portal].open = TRUE] ELSE s

\* The three dismissal handlers return the state they leave and whether they
\* called this.props.onClose(); the callback itself is the caller's code.

\* an Escape handler that closes the modal itself
handleEscapeKey_hides(s, key) ==
  IF key = "Escape" /\ s.props.closeOnEscape # "false"
  THEN [s |-> [s EXCEPT !.props.isOpen = FALSE], onClose |-> TRUE]
  ELSE [s |-> s, onClose |-> FALSE]

handleEscapeKey(s, key) ==
  [s |-> s, onClose |-> (key = "Escape" /\ s.props.closeOnEscape # "false")]

\* the click listener of portal n's backdrop; target is the element clicked in that portal
handleBackdropClick(s, n, target) ==
  [s |-> s, onClose |-> (target = "backdrop" /\ n = s.portal)]

\* the click listener of the close button: () => this.props.onClose()
closeButtonClick(s) == [s |-> s, onClose |-> TRUE]

\* a focus trap that ignores event.shiftKey
trapFocus_noShift(s, key, shiftKey) ==
  IF key # "Tab" \/ Len(s.focusableElements) = 0 THEN [s |-> s, prevented |-> FALSE]
  ELSE IF s.activeElement = s.focusableElements[Len(s.focusableElements)]
       THEN [s |-> Focus(s, s.focusableElements[1]), prevented |-> TRUE]
       ELSE [s |-> s, prevented |-> FALSE]

\* returns the state after the handler and whether it called event.preventDefault()
trapFocus(s, key, shiftKey) ==
  IF key # "Tab" THEN [s |-> s, prevented |-> FALSE]
  ELSE IF Len(s.focusableElements) = 0 THEN [s |-> s, prevented |-> FALSE]
  ELSE LET firstElement == s.focusableElements[1]
           lastElement  == s.focusableElements[Len(s.focusableElements)]
       IN IF shiftKey
          THEN IF s.activeElement = firstElement
               THEN [s |-> Focus(s, lastElement), prevented |-> TRUE]
               ELSE [s |-> s, prevented |-> FALSE]
          ELSE IF s.activeElement = lastElement
               THEN [s |-> Focus(s, firstElement), prevented |-> TRUE]
               ELSE [s |-> s, prevented |-> FALSE]

\* ------------------------------------------------------------------ Navbar
\* NavbarProps: props.user as the user's name ("none" = no user), props.menuItems as
\* the hrefs of its items, and the href of the item marked active ("" = none)
NavUsers == {"A", "B"}
NavMenus == {<< >>, <<"/a", "/b">>}
NavHrefs == {"/a", "/b", "/c"}
NavbarProps ==
  {p \in [user : {"none"} \cup NavUsers, menuItems : NavMenus, active : {"", "/a"}] :
     p.active # "" => \E j \in 1..Len(p.menuItems) : p.menuItems[j] = p.active}

\* the listener functions: the two arrow functions of setupEventListeners, and the
\* method destroy() passes to removeEventListener
ClickArrow   == [type |-> "click",   fn |-> "arrow@287"]
KeydownArrow == [type |-> "keydown", fn |-> "arrow@294"]

\* no Navbar on the page
NoNavbar ==
  [props |-> [user |-> "none", menuItems |-> << >>, active |-> ""],
   userSection |-> FALSE, userDropdown |-> FALSE, mobileMenu |-> FALSE,
   isMobileMenuOpen |-> FALSE, isUserDropdownOpen |-> FALSE,
   dropdownOpenClass |-> FALSE, userButtonExpanded |-> FALSE,
   mobileOpenClass |-> FALSE, activeLink |-> "",
   docListeners |-> {}, destroyed |-> FALSE]

NavL0 == [op |-> "init", handlers |-> {}, calls |-> {}]

\* createUserSection(): a new user button (aria-expanded false) and a new dropdown
\* (without the open class), assigned to this.userDropdown
createUserSection(n) ==
  [n EXCEPT !.userSection = TRUE, !.userDropdown = TRUE,
            !.dropdownOpenClass = FALSE, !.userButtonExpanded = FALSE]

Navbar_createElement(n) ==
  LET n1 == IF n.props.user # "none" THEN createUserSection(n) ELSE n
  IN [n1 EXCEPT !.mobileMenu = (Len(n.props.menuItems) > 0),
                !.activeLink = n.props.active]

\* document.addEventListener with two fresh arrow functions
setupEventListeners(n) ==
  [n EXCEPT !.docListeners = @ \cup {ClickArrow, KeydownArrow}]

openMobileMenu(n) ==
  IF ~n.mobileMenu THEN n
  ELSE [n EXCEPT !.isMobileMenuOpen = TRUE, !.mobileOpenClass = TRUE]

closeMobileMenu(n) ==
  IF ~n.mobileMenu THEN n
  ELSE [n EXCEPT !.isMobileMenuOpen = FALSE, !.mobileOpenClass = FALSE]

toggleMobileMenu(n) ==
  IF n.isMobileMenuOpen THEN closeMobileMenu(n) ELSE openMobileMenu(n)

openUserDropdown(n) ==
  IF ~n.userDropdown THEN n
  ELSE [n EXCEPT !.isUserDropdownOpen = TRUE, !.dropdownOpenClass = TRUE,
                 !.userButtonExpanded = TRUE]

closeUserDropdown(n) ==
  IF ~n.userDropdown THEN n
  ELSE [n EXCEPT !.isUserDropdownOpen = FALSE, !.dropdownOpenClass = FALSE,
                 !.userButtonExpanded = FALSE]

toggleUserDropdown(n) ==
  IF n.isUserDropdownOpen THEN closeUserDropdown(n) ELSE openUserDropdown(n)

\* the document click listener; inside = container.contains(e.target).
\* Returns the state it leaves and the methods it called.
onDocumentClick(n, inside) ==
  IF n.userDropdown /\ ~inside
  THEN [n |-> closeUserDropdown(n), calls |-> {"closeUserDropdown"}]
  ELSE [n |-> n, calls |-> {}]

\* the document keydown listener
onDocumentKeydown(n, key) ==
  IF key # "Escape" THEN [n |-> n, calls |-> {}]
  ELSE LET n1 == closeUserDropdown(n)
       IN IF n1.isMobileMenuOpen
          THEN [n |-> closeMobileMenu(n1), calls |-> {"closeUserDropdown", "closeMobileMenu"}]
          ELSE [n |-> n1, calls |-> {"closeUserDropdown"}]

setActiveMenuItem(n, href) ==
  LET hit == IF \E j \in 1..Len(n.props.menuItems) : n.props.menuItems[j] = href
             THEN href ELSE ""
  IN [n EXCEPT !.props.active = hit, !.activeLink = hit]

updateUser(n, user) ==
  LET n1 == [n EXCEPT !.props.user = user]
  IN IF n1.userSection THEN createUserSection(n1) ELSE n1

\* removeEventListener removes the listener registered with the very function passed;
\* this.closeUserDropdown was never registered
Navbar_destroy(n) ==
  [n EXCEPT !.docListeners = @ \ {[type |-> "click",   fn |-> "closeUserDropdown"],
                                   [type |-> "keydown", fn |-> "closeUserDropdown"]}]

\* a click event reaches the document: the registered click listeners of the Navbar run
DispatchClick(n, inside) ==
  IF ClickArrow \in n.docListeners
  THEN LET r == onDocumentClick(n, inside)
       IN [n |-> r.n, handlers |-> {"click"}, calls |-> r.calls]
  ELSE [n |-> n, handlers |-> {}, calls |-> {}]

DispatchKeydown(n, key) ==
  IF KeydownArrow \in n.docListeners
  THEN LET r == onDocumentKeydown(n, key)
       IN [n |-> r.n, handlers |-> {"keydown"}, calls |-> r.calls]
  ELSE [n |-> n, handlers |-> {}, calls |-> {}]

\* a Navbar step: d is the result of the dispatch that ends it
NavStep(op, d) ==
  /\ navbar' = d.n
  /\ navLast' = [op |-> op, handlers |-> d.handlers, calls |-> d.calls]

NavQuiet(n) == [n |-> n, handlers |-> {}, calls |-> {}]

\* the user clicks the user button: its listener runs, then the event bubbles to document
NavClickUserButton ==
  /\ navbar.userSection
  /\ NavStep("userButton", DispatchClick(toggleUserDropdown(navbar), TRUE))
  /\ UNCHANGED <<vars, btnVars>>

\* the user clicks an item of the open dropdown
NavClickDropdownItem ==
  /\ navbar.userSection /\ navbar.dropdownOpenClass
  /\ NavStep("dropdownItem", DispatchClick(closeUserDropdown(navbar), TRUE))
  /\ UNCHANGED <<vars, btnVars>>

\* the user clicks the mobile toggle
NavClickMobileToggle ==
  /\ navbar.mobileMenu
  /\ NavStep("mobileToggle", DispatchClick(toggleMobileMenu(navbar), TRUE))
  /\ UNCHANGED <<vars, btnVars>>

\* the user clicks a part of the page outside the Navbar
NavClickOutside ==
  /\ NavStep("clickOutside", DispatchClick(navbar, FALSE))
  /\ UNCHANGED <<vars, btnVars>>

NavKeyDown ==
  /\ \E key \in {"Escape", "Enter"} :
       NavStep(IF key = "Escape" THEN "escape" ELSE "key", DispatchKeydown(navbar, key))
  /\ UNCHANGED <<vars, btnVars>>

NavSetActiveMenuItem ==
  /\ \E href \in NavHrefs :
       NavStep("setActiveMenuItem", NavQuiet(setActiveMenuItem(navbar, href)))
  /\ UNCHANGED <<vars, btnVars>>

NavUpdateUser ==
  /\ \E u \in NavUsers : NavStep("updateUser", NavQuiet(updateUser(navbar, u)))
  /\ UNCHANGED <<vars, btnVars>>

NavDestroy ==
  /\ NavStep("destroy", NavQuiet([Navbar_destroy(navbar) EXCEPT !.destroyed = TRUE]))
  /\ UNCHANGED <<vars, btnVars>>

\* ------------------------------------------------------------------ Button
\* an optional boolean prop: "true", "false", or "undef" when omitted
OptBool == {"true", "false", "undef"}

ButtonProps ==
  [disabled : OptBool, loading : OptBool, variant : {"undef", "secondary"},
   onClick : BOOLEAN]

\* Partial<ButtonProps>: Keep stands for a key the object does not have
ButtonPatches ==
  [disabled : OptBool \cup {Keep}, loading : OptBool \cup {Keep},
   variant : {Keep, "danger"}]

\* JavaScript a || b on optional booleans: a if a is truthy, else b
Or(a, b) == IF a = "true" THEN a ELSE b

NoElement == [exists |-> FALSE, disabled |-> FALSE, ariaDisabled |-> "", busy |-> FALSE,
              variant |-> "", clickListener |-> FALSE, attached |-> FALSE]

\* no Button on the page
NoButton ==
  [props |-> [disabled |-> "undef", loading |-> "undef", variant |-> "undef",
              onClick |-> FALSE],
   element |-> NoElement, spinner |-> FALSE, constructed |-> FALSE]

BtnL0 == [op |-> "none", threw |-> FALSE, onClick |-> FALSE]

\* createElement(): returns the element, or threw when (disabled || loading) is
\* undefined and .toString() is called on it; this.spinner is set as a side effect
Button_createElement(b) ==
  LET d  == Or(Or(b.props.disabled, b.props.loading), "false")
      a  == Or(b.props.disabled, b.props.loading)
      el == [exists |-> TRUE,
             disabled |-> (d = "true"),
             ariaDisabled |-> a,
             busy |-> (b.props.loading = "true"),
             variant |-> IF b.props.variant = "undef" THEN "primary" ELSE b.props.variant,
             clickListener |-> (b.props.onClick /\ b.props.disabled # "true"
                                  /\ b.props.loading # "true"),
             attached |-> FALSE]
  IN IF a = "undef"
     THEN [threw |-> TRUE, element |-> NoElement, spinner |-> b.spinner]
     ELSE [threw |-> FALSE, element |-> el,
           spinner |-> (b.spinner \/ b.props.loading = "true")]

\* { ...this.props, ...newProps }
Button_Merge(old, new) ==
  [disabled |-> IF new.disabled = Keep THEN old.disabled ELSE new.disabled,
   loading  |-> IF new.loading = Keep THEN old.loading ELSE new.loading,
   variant  |-> IF new.variant = Keep THEN old.variant ELSE new.variant,
   onClick  |-> old.onClick]

\* updateProps(): returns the instance it leaves and whether it threw
Button_updateProps(b, newProps) ==
  LET b1 == [b EXCEPT !.props = Button_Merge(@, newProps)]
      c  == Button_createElement(b1)
  IN IF c.threw THEN [b |-> b1, threw |-> TRUE]
     ELSE [b |-> [b1 EXCEPT !.element = [c.element EXCEPT !.attached = b.element.attached],
                            !.spinner = c.spinner],
           threw |-> FALSE]

NoButtonPatch == [disabled |-> Keep, loading |-> Keep, variant |-> Keep]

setLoading(b, loading) ==
  Button_updateProps(b, [NoButtonPatch EXCEPT !.loading = IF loading THEN "true" ELSE "false"])

setDisabled(b, disabled) ==
  Button_updateProps(b, [NoButtonPatch EXCEPT !.disabled = IF disabled THEN "true" ELSE "false"])

\* a Button step
BtnStep(op, r, onClick) ==
  /\ button' = r.b
  /\ btnLast' = [op |-> op, threw |-> r.threw, onClick |-> onClick]
  /\ UNCHANGED <<vars, navVars>>

BtnUpdateProps ==
  \E np \in ButtonPatches :
    /\ button.constructed
    /\ BtnStep("updateProps", Button_updateProps(button, np), FALSE)

BtnSetLoading ==
  \E v \in BOOLEAN :
    /\ button.constructed
    /\ BtnStep("setLoading", setLoading(button, v), FALSE)

BtnSetDisabled ==
  \E v \in BOOLEAN :
    /\ button.constructed
    /\ BtnStep("setDisabled", setDisabled(button, v), FALSE)

\* the caller inserts render() into the page
BtnMount ==
  /\ button.constructed /\ ~button.element.attached
  /\ BtnStep("mount", [b |-> [button EXCEPT !.element.attached = TRUE], threw |-> FALSE], FALSE)

\* the user clicks the button; a disabled button dispatches no click event
BtnClick ==
  /\ button.constructed /\ button.element.attached /\ ~button.element.disabled
  /\ BtnStep("click", [b |-> button, threw |-> FALSE], button.element.clickListener)

\* ------------------------------------------------------------- Modal transitions
Within(s) ==
  /\ Len(s.nodes) <= MaxPortals
  /\ Len(s.timers) <= MaxTimers
  /\ s.frames <= MaxFrames
  /\ \A n \in 1..Len(s.nodes) : s.nodes[n].ver <= MaxVer

Apply(s) ==
  /\ props' = s.props
  /\ portal' = s.portal
  /\ previousFocusedElement' = s.previousFocusedElement
  /\ focusableElements' = s.focusableElements
  /\ nodes' = s.nodes
  /\ escListener' = s.escListener
  /\ trapListener' = s.trapListener
  /\ overflow' = s.overflow
  /\ activeElement' = s.activeElement
  /\ timers' = s.timers
  /\ frames' = s.frames
  /\ threw' = s.threw
  /\ UNCHANGED <<navVars, btnVars>>

L0 == [op |-> "init", key |-> "", shiftKey |-> FALSE, prevented |-> FALSE,
       onClose |-> FALSE, target |-> "", n |-> 0, did |-> ""]

\* a public method call made by the caller
CallAs(s, l) ==
  /\ steps < MaxSteps
  /\ Within(s)
  /\ Apply(s)
  /\ steps' = steps + 1
  /\ misuse' = (misuse \/ (destroyed > 0 /\ l.op # "destroy"))
  /\ destroyed' = IF l.op # "destroy" THEN destroyed ELSE IF destroyed = 0 THEN 1 ELSE 2
  /\ last' = l

Call(s, op) == CallAs(s, [L0 EXCEPT !.op = op])

\* a deferred callback run by the event loop
Deferred(s, l) == Within(s) /\ Apply(s) /\ last' = l /\ UNCHANGED <<steps, misuse, destroyed>>

\* an input event caused by the user
Event(s, l) ==
  /\ steps < MaxSteps
  /\ Apply(s)
  /\ steps' = steps + 1
  /\ last' = l
  /\ since' = "other"
  /\ UNCHANGED <<misuse, destroyed>>

\* "reshow": show() called while the cleanup of the preceding hide() is still pending
Show ==
  /\ Call(show(St), "show")
  /\ since' = IF since = "hide" /\ timers # << >> THEN "reshow" ELSE "show"

Hide == Call(hide(St), "hide") /\ since' = IF portal # 0 THEN "hide" ELSE "other"

\* the branch updateProps takes
Branch(wasOpen, isOpen) ==
  IF wasOpen /\ ~isOpen THEN "hide"
  ELSE IF ~wasOpen /\ isOpen THEN "show"
  ELSE IF isOpen THEN "rerender" ELSE ""

UpdateProps ==
  \E np \in Patches :
    LET did == Branch(props.isOpen, Merge(props, np).isOpen) IN
    /\ CallAs(updateProps(St, np), [L0 EXCEPT !.op = "updateProps", !.did = did])
    /\ since' = IF did = "rerender" THEN "rerender" ELSE "other"

UpdateContent ==
  \E c \in Children :
    /\ CallAs(updateContent(St, c), [L0 EXCEPT !.op = "updateContent", !.target = c])
    /\ since' = "other"

Destroy == Call(destroy(St), "destroy") /\ since' = "destroy"

\* the oldest pending timeout fires
TimerFires ==
  /\ timers # << >>
  /\ LET t  == Head(timers)
         s0 == [St EXCEPT !.timers = Tail(@)]
         s1 == IF t.kind = "cleanup" THEN hideTimeout(s0) ELSE show(s0)
     IN Deferred(s1, [L0 EXCEPT !.op = t.kind])
  /\ since' = IF Head(timers).kind = "show" /\ since = "hide" THEN "other" ELSE since

\* the oldest pending animation-frame callback runs
FrameFires ==
  /\ frames > 0
  /\ Deferred(showFrame([St EXCEPT !.frames = @ - 1]), [L0 EXCEPT !.op = "frame"])
  /\ UNCHANGED since

\* a keydown event reaches the document and the registered listeners run
KeyDown ==
  \E key \in {"Tab", "Escape"}, shiftKey \in BOOLEAN :
    /\ key = "Escape" => ~shiftKey
    /\ LET e == IF escListener THEN handleEscapeKey(St, key)
                ELSE [s |-> St, onClose |-> FALSE]
           r == IF trapListener THEN trapFocus(e.s, key, shiftKey)
                ELSE [s |-> e.s, prevented |-> FALSE]
       IN Event(r.s, [L0 EXCEPT !.op = "key", !.key = key, !.shiftKey = shiftKey,
                                !.onClose = e.onClose, !.prevented = r.prevented])

\* a click inside an attached portal subtree; the listeners on the path of the event run
Click ==
  \E n \in 1..Len(nodes), target \in {"backdrop", "modal", "close"} :
    /\ nodes[n].attached
    /\ target = "close" => nodes[n].closeBtn
    /\ LET c == IF target = "close" THEN closeButtonClick(St)
                ELSE [s |-> St, onClose |-> FALSE]
           b == IF nodes[n].backdropListener THEN handleBackdropClick(c.s, n, target)
                ELSE [s |-> c.s, onClose |-> FALSE]
       IN Event(b.s, [L0 EXCEPT !.op = "click", !.target = target, !.n = n,
                                !.onClose = (c.onClose \/ b.onClose)])

\* the focusable elements connected to the document
Focusables(s) ==
  {Ext(i) : i \in ExtIds} \cup
  UNION {{SubtreeFocusable(s, n)[j] : j \in 1..Len(SubtreeFocusable(s, n))} :
           n \in {m \in 1..Len(s.nodes) : s.nodes[m].attached}}

\* the user moves focus (pointer, or the default action of an unprevented Tab),
\* or drops it by clicking a part of the page that takes no focus
FocusMoves ==
  \E el \in Focusables(St) \cup {Body} :
    /\ activeElement # el
    /\ Event([St EXCEPT !.activeElement = el], [L0 EXCEPT !.op = "focus"])

\* new Modal(props)
Init ==
  \E p \in PropsSet, a \in {Body} \cup {Ext(i) : i \in ExtIds} :
    LET s0 == [props |-> p, portal |-> 0, previousFocusedElement |-> Undefined,
               focusableElements |-> << >>, nodes |-> << >>,
               escListener |-> FALSE, trapListener |-> FALSE, overflow |-> "",
               activeElement |-> a, timers |-> << >>, frames |-> 0, threw |-> FALSE]
        s1 == IF p.isOpen THEN show(s0) ELSE s0
    IN /\ props = s1.props
       /\ portal = s1.portal
       /\ previousFocusedElement = s1.previousFocusedElement
       /\ focusableElements = s1.focusableElements
       /\ nodes = s1.nodes
       /\ escListener = s1.escListener
       /\ trapListener = s1.trapListener
       /\ overflow = s1.overflow
       /\ activeElement = s1.activeElement
       /\ timers = s1.timers
       /\ frames = s1.frames
       /\ threw = s1.threw
       /\ steps = 0
       /\ misuse = FALSE
       /\ destroyed = 0
       /\ since = IF p.isOpen THEN "show" ELSE "other"
       /\ last = L0
       /\ navbar = NoNavbar /\ navLast = NavL0
       /\ button = NoButton /\ btnLast = BtnL0

Next ==
  \/ Show
  \/ Hide
  \/ UpdateProps
  \/ UpdateContent
  \/ Destroy
  \/ TimerFires
  \/ FrameFires
  \/ KeyDown
  \/ Click
  \/ FocusMoves

Spec == Init /\ [][Next]_vars

\* ------------------------------------------------ Navbar and Button on their own
\* no Modal on the page
NoModal ==
  /\ props = [isOpen |-> FALSE, title |-> "unset", children |-> "none",
              closeOnBackdropClick |-> "unset", closeOnEscape |-> "unset",
              showCloseButton |-> "unset"]
  /\ portal = 0
  /\ previousFocusedElement = Undefined
  /\ focusableElements = << >>
  /\ nodes = << >>
  /\ escListener = FALSE /\ trapListener = FALSE
  /\ overflow = ""
  /\ activeElement = Body
  /\ timers = << >> /\ frames = 0
  /\ threw = FALSE /\ steps = 0 /\ misuse = FALSE /\ destroyed = 0
  /\ since = "other"
  /\ last = L0

\* new Navbar(props)
NavInit ==
  /\ \E p \in NavbarProps :
       navbar = setupEventListeners(Navbar_createElement([NoNavbar EXCEPT !.props = p]))
  /\ navLast = NavL0
  /\ NoModal
  /\ button = NoButton /\ btnLast = BtnL0

NavNext ==
  \/ NavClickUserButton
  \/ NavClickDropdownItem
  \/ NavClickMobileToggle
  \/ NavClickOutside
  \/ NavKeyDown
  \/ NavSetActiveMenuItem
  \/ NavUpdateUser
  \/ NavDestroy

SpecNavbar == NavInit /\ [][NavNext]_navVars

\* new Button(props): when createElement throws, the constructor throws and no
\* instance exists
BtnInit ==
  /\ \E p \in ButtonProps :
       LET b0 == [NoButton EXCEPT !.props = p]
           c  == Button_createElement(b0)
       IN /\ button = IF c.threw THEN b0
                      ELSE [b0 EXCEPT !.element = c.element, !.spinner = c.spinner,
                                      !.constructed = TRUE]
          /\ btnLast = [op |-> "new", threw |-> c.threw, onClick |-> FALSE]
  /\ NoModal
  /\ navbar = NoNavbar /\ navLast = NavL0

BtnNext ==
  \/ BtnUpdateProps
  \/ BtnSetLoading
  \/ BtnSetDisabled
  \/ BtnMount
  \/ BtnClick

SpecButton == BtnInit /\ [][BtnNext]_btnVars

\* ------------------------------------------------------------------ claims
\* the controller's portal is a child of document.body
Mounted == portal # 0 /\ nodes[portal].attached
\* the controller's portal carries the class modal-portal--open
HasOpen == portal # 0 /\ nodes[portal].open
\* an element of the page outside the modal
Outside(el) == el.k = "ext"
\* show() has just returned (called directly, by updateProps, by the constructor or by the re-render timer)
ShowReturned ==
  \/ last.op = "show"
  \/ last.op = "updateProps" /\ last.did = "show"
  \/ last.op = "init" /\ props.isOpen
\* the deferred cleanup of a hide() has just run, nothing else having happened since that hide()
HideCompleted == last.op = "cleanup" /\ since = "hide" /\ timers = << >>

\* C1: when hide() on a modal shown while a page element E had focus is followed by its
\* 200 ms cleanup with nothing in between, the portal is detached from document.body,
\* body overflow is reset and focus is on E.
C1_HideRestores ==
  (HideCompleted /\ Outside(previousFocusedElement)) =>
    /\ ~Mounted
    /\ overflow = ""
    /\ activeElement = previousFocusedElement

C1_Witness ==
  /\ HideCompleted
  /\ Outside(previousFocusedElement)
  /\ portal # 0
  /\ activeElement = previousFocusedElement

\* C2 (as stated): when show() returns, the portal is attached, the focus trap (and the
\* Escape listener, if enabled) is registered, and the open class is not on the portal.
C2_ShowNotYetOpen ==
  ShowReturned =>
    /\ Mounted
    /\ trapListener
    /\ (props.closeOnEscape # "false" => escListener)
    /\ ~HasOpen

\* C2 (amended): when show() returns, the portal is attached and the listeners are
\* registered; show() does not itself add the open class (a portal without it when
\* show() was called is without it on return), and a portal gains the class only in
\* an animation-frame callback.
C2_ShowDefersOpen ==
  [][/\ ShowReturned' =>
         /\ Mounted'
         /\ trapListener'
         /\ (props'.closeOnEscape # "false" => escListener')
         /\ (~HasOpen => ~HasOpen')
     /\ \A n \in 1..Len(nodes') :
          (nodes'[n].open /\ (n > Len(nodes) \/ ~nodes[n].open)) => last'.op = "frame"]_vars

C2_Witness ==
  /\ last.op = "show"
  /\ Mounted
  /\ trapListener
  /\ ~HasOpen
  /\ frames > 0

\* C3: while the modal is open, a Tab keypress with focus on the last element of a
\* non-empty focusable list moves focus to the first, a Shift+Tab with focus on the first
\* moves it to the last, and every other Tab keypress is not intercepted (no
\* preventDefault, focus untouched); with an empty list no Tab keypress is intercepted.
C3_FocusTrap ==
  [][(last'.op = "key" /\ last'.key = "Tab" /\ Mounted) =>
       LET n == Len(focusableElements) IN
       IF n > 0 /\ ~last'.shiftKey /\ activeElement = focusableElements[n]
       THEN last'.prevented /\ activeElement' = focusableElements[1]
       ELSE IF n > 0 /\ last'.shiftKey /\ activeElement = focusableElements[1]
       THEN last'.prevented /\ activeElement' = focusableElements[n]
       ELSE ~last'.prevented /\ activeElement' = activeElement]_vars

C3_Witness ==
  /\ last.op = "key" /\ last.key = "Tab" /\ ~last.shiftKey /\ last.prevented
  /\ Mounted
  /\ Len(focusableElements) >= 3
  /\ activeElement = focusableElements[1]

\* the modal is in its OPEN state: portal attached and carrying the open class,
\* no transition pending
ModalOpen == Mounted /\ HasOpen /\ timers = << >> /\ frames = 0
\* destroy() was the last method called on the instance, and the instance was used as documented
Destroyed == destroyed > 0 /\ ~misuse

\* C4: while the modal is open, an Escape keypress invokes onClose exactly when
\* closeOnEscape is true or unset in the current configuration.
C4_EscapeFollowsConfig ==
  (last.op = "key" /\ last.key = "Escape" /\ ModalOpen) =>
    (last.onClose <=> props.closeOnEscape # "false")

\* C5: a click on the backdrop of the controller's portal invokes onClose exactly when
\* closeOnBackdropClick is true or unset in the current configuration; a click on the
\* modal content never does.
C5_BackdropFollowsConfig ==
  (last.op = "click" /\ last.n = portal /\ last.target \in {"backdrop", "modal"}
     /\ ModalOpen) =>
    (last.onClose <=> (last.target = "backdrop" /\ props.closeOnBackdropClick # "false"))

\* C6: a step in which a dismissal trigger invokes onClose changes nothing in the
\* controller: props, portal, open class, listeners, scroll lock and pending timers.
C6_OnCloseChangesNothing ==
  [][last'.onClose =>
       UNCHANGED <<props, portal, previousFocusedElement, focusableElements, nodes,
                   escListener, trapListener, overflow, activeElement, timers, frames>>]_vars

C6_Witness ==
  /\ last.onClose
  /\ last.op = "key"
  /\ ModalOpen
  /\ props.isOpen
  /\ escListener /\ trapListener
  /\ overflow = "hidden"

\* C7: updateProps with isOpen staying true queues hide's cleanup and, behind it, the
\* delayed show(); once both have fired with nothing in between the portal is attached,
\* the listeners are registered and body scroll is suppressed.
C7_RerenderReopens ==
  /\ (last.op = "updateProps" /\ last.did = "rerender" /\ portal # 0) =>
        /\ Len(timers) >= 2
        /\ timers[Len(timers) - 1].kind = "cleanup"
        /\ timers[Len(timers)].kind = "show"
  /\ (last.op = "show" /\ since = "rerender" /\ timers = << >>) =>
        /\ Mounted
        /\ trapListener
        /\ (props.closeOnEscape # "false" => escListener)
        /\ overflow = "hidden"

C7_Witness ==
  /\ last.op = "show" /\ since = "rerender" /\ timers = << >>
  /\ Mounted
  /\ trapListener
  /\ overflow = "hidden"

\* C8: the subtree on display when a show() completes is built from the current
\* configuration: title, close button, backdrop listener and (until updateContent
\* replaces it) the content are those of the current props.
C8_SubtreeFromCurrentProps ==
  (ShowReturned /\ timers = << >>) =>
    /\ nodes[portal].title = props.title
    /\ nodes[portal].closeBtn = (props.showCloseButton # "false")
    /\ nodes[portal].backdropListener = (props.closeOnBackdropClick # "false")
    /\ (nodes[portal].ver = 0 => nodes[portal].content = props.children)

\* C9: destroy() never raises, whatever the state and however often it is called, and
\* once the pending timers of a destroyed controller have fired neither keydown
\* listener of the controller is registered on the document.
C9_DestroyIdempotent ==
  /\ ~threw
  /\ (Destroyed /\ timers = << >>) => (~escListener /\ ~trapListener)

C9_Witness ==
  /\ destroyed = 2
  /\ ~misuse
  /\ timers = << >>
  /\ Len(nodes) > 0
  /\ ~escListener /\ ~trapListener
  /\ ~threw

\* C10: once the pending timers of a destroyed controller have fired, no portal the
\* controller created is a child of document.body.
C10_DestroyDetaches ==
  (Destroyed /\ timers = << >>) => \A n \in 1..Len(nodes) : ~nodes[n].attached

\* C11: at most one portal node created by the controller is a child of document.body.
C11_OnePortalAttached ==
  Cardinality({n \in 1..Len(nodes) : nodes[n].attached}) <= 1

\* the caller has just called show() (not the re-render timer)
ShowCalled == last.op = "show" /\ since \in {"show", "reshow"}

\* C12: show() called on a modal that is already open changes nothing a single show()
\* had set: the same portal is the one attached, and the captured previously-focused
\* element is the one captured by the first show().
C12_ShowIdempotent ==
  [][(ModalOpen /\ ShowCalled' /\ steps' = steps + 1) =>
       /\ portal' = portal
       /\ \A n \in 1..Len(nodes') : nodes'[n].attached <=> n = portal
       /\ previousFocusedElement' = previousFocusedElement]_vars

\* C13: updateContent(c) puts c in the modal body and recomputes the focusable list from
\* it: from then on the list is the focusable elements of the updated subtree, and a
\* Tab / Shift+Tab wrap moves focus to the first / last of them.
C13_UpdateContentRefreshes ==
  [][/\ (last'.op = "updateContent" /\ portal' # 0) => nodes'[portal'].content = last'.target
     /\ (portal' # 0 /\ nodes'[portal'].ver > 0) =>
          focusableElements' = SubtreeFocusable(St', portal')
     /\ (last'.op = "key" /\ last'.prevented /\ portal # 0 /\ nodes[portal].ver > 0) =>
          LET f == SubtreeFocusable(St, portal) IN
          /\ Len(f) > 0
          /\ activeElement' = IF last'.shiftKey THEN f[Len(f)] ELSE f[1]]_vars

C13_Witness ==
  /\ last.op = "key" /\ last.key = "Tab" /\ last.shiftKey /\ last.prevented
  /\ Mounted
  /\ nodes[portal].ver > 0
  /\ activeElement = Item(portal, nodes[portal].ver, NumFocusable(nodes[portal].content))

\* the modal is CLOSED: its portal exists and the cleanup of a hide() has detached it
\* (and restored focus in the same step); no show() has captured an element since
ModalClosed == portal # 0 /\ ~nodes[portal].attached

\* C14: the captured element is focused once per show(): a cleanup that runs while the
\* modal is already CLOSED (the restoration has happened, no show() since) does not
\* move focus.
C14_RestoresOnce ==
  [][(ModalClosed /\ last'.op = "cleanup") => activeElement' = activeElement]_vars

\* C15: show() cancels no pending timeout, and when show() was called inside the 200 ms
\* window of a hide(), the cleanup of that hide() runs afterwards: once it has, the
\* portal is detached, both keydown listeners are unregistered and body scroll is
\* restored, although show() was the last operation requested.
C15_CloseTimerNotCancelled ==
  [][/\ (ShowCalled' /\ steps' = steps + 1) => timers' = timers
     /\ (last'.op = "cleanup" /\ since' = "reshow" /\ timers' = << >>) =>
          /\ ~Mounted'
          /\ ~escListener' /\ ~trapListener'
          /\ overflow' = ""]_vars

C15_Witness ==
  /\ last.op = "cleanup" /\ since = "reshow" /\ timers = << >>
  /\ portal # 0 /\ ~nodes[portal].attached
  /\ ~trapListener
  /\ overflow = ""
  /\ destroyed = 0

\* C16: in every state reached after hide() with no show() since, the portal does not
\* carry the open class.
C16_ClosedStaysClosed ==
  since = "hide" => ~HasOpen

\* C17: once Navbar.destroy() has been called, no document-level listener of the
\* Navbar is registered, and no click or keypress on the document runs one.
C17_NavbarDestroyUnregisters ==
  navbar.destroyed => (navbar.docListeners = {} /\ navLast.handlers = {})

\* the value the element's disabled flag and aria-disabled attribute are to show
ButtonDisabled == Or(Or(button.props.disabled, button.props.loading), "false")

\* C18: constructing a Button and every updateProps / setLoading / setDisabled call
\* complete without an error, and leave the element's disabled flag and aria-disabled
\* attribute equal to (disabled or loading), 'false' when both are omitted.
C18_ButtonDisabledState ==
  btnLast.op \in {"new", "updateProps", "setLoading", "setDisabled"} =>
    /\ ~btnLast.threw
    /\ button.element.exists
    /\ button.element.disabled = (ButtonDisabled = "true")
    /\ button.element.ariaDisabled = ButtonDisabled

====
